---- MODULE Spec2Model ----
(***************************************************************************)
(* redux-nodes: a tree of state nodes is compiled into an initial state,   *)
(* a tree of action creators and one reducer.  Two iterations of the       *)
(* compiler are modelled: createNodes (returns {reducer, actions}) and     *)
(* createStore (wraps the reducer in a redux store).                       *)
(*                                                                         *)
(* JavaScript objects live in a heap (address -> object) so that reference *)
(* identity (===), shallow copies ({...x}) and in-place mutation are what  *)
(* they are in the program and not value equality.                         *)
(***************************************************************************)
EXTENDS Integers, Sequences, FiniteSets, TLC

\* ------------------------------------------------------------------ bounds
\* number of dispatches in one run
MaxDispatch == 2
\* primitive payloads are 0..MaxPayload
MaxPayload == 1
\* the initial value of a list node holds up to MaxList elements
MaxList == 2

\* ------------------------------------------------------------- JS values
\* A JavaScript value: a primitive (compared by value) or a reference to a
\* heap object (compared by address), or undefined.
Prim(n) == [t |-> "prim", v |-> n]
Ref(a) == [t |-> "ref", v |-> a]
Undefined == [t |-> "undefined", v |-> 0]
IsRef(x) == x.t = "ref"

\* A thrown TypeError, as the result of an expression.
TypeError == [ok |-> FALSE, val |-> Undefined]
Ok(x) == [ok |-> TRUE, val |-> x]

\* Object.keys(obj) enumerates the keys in insertion order; every object of
\* the model is declared in this order.
KeyOrder ==
  <<"a", "b", "c", "foo", "test", "bar", "x", "y", "z", "count",
    "a.b", "value", "actions", "set", "Set", "changeFoo", "someAction">>

RECURSIVE FilterKeys(_, _)
FilterKeys(order, dom) ==
  IF order = <<>> THEN <<>>
  ELSE IF Head(order) \in dom THEN <<Head(order)>> \o FilterKeys(Tail(order), dom)
  ELSE FilterKeys(Tail(order), dom)

ObjectKeys(obj) == FilterKeys(KeyOrder, DOMAIN obj)

\* obj[key] = v on a plain object: sets or adds the key.
SetKey(obj, key, v) == (key :> v) @@ obj

\* aggr[key] for a value aggr: a TypeError on undefined, undefined for a key
\* the object lacks and for any key of a primitive.
Lookup(h, aggr, key) ==
  IF aggr.t = "undefined" THEN TypeError
  ELSE IF IsRef(aggr) /\ key \in DOMAIN h[aggr.v] THEN Ok(h[aggr.v][key])
  ELSE Ok(Undefined)

\* { ...x }: the own enumerable keys of x in a new object (none for a
\* number or undefined).
Spread(h, x) == IF IsRef(x) THEN h[x.v] ELSE <<>>

\* ---------------------------------------------------------------- strings
\* Strings that end up in action types are sequences of characters.
Spell ==
  ("a.b" :> <<"a", ".", "b">>) @@
  [a |-> <<"a">>, b |-> <<"b">>, c |-> <<"c">>,
   foo |-> <<"f", "o", "o">>, test |-> <<"t", "e", "s", "t">>,
   bar |-> <<"b", "a", "r">>, x |-> <<"x">>, y |-> <<"y">>, z |-> <<"z">>,
   count |-> <<"c", "o", "u", "n", "t">>,
   set |-> <<"s", "e", "t">>,
   Set |-> <<"S", "e", "t">>,
   changeFoo |-> <<"c", "h", "a", "n", "g", "e", "F", "o", "o">>,
   someAction |-> <<"s", "o", "m", "e", "A", "c", "t", "i", "o", "n">>]

UpperChar ==
  [a |-> "A", c |-> "C", e |-> "E", g |-> "G", h |-> "H", i |-> "I",
   m |-> "M", n |-> "N", o |-> "O", s |-> "S", t |-> "T"]

\* String.prototype.toUpperCase
toUpperCase(str) ==
  [i \in 1..Len(str) |-> IF str[i] \in DOMAIN UpperChar THEN UpperChar[str[i]] ELSE str[i]]

\* Array.prototype.join('.')
RECURSIVE join(_)
join(segs) ==
  IF segs = <<>> THEN <<>>
  ELSE IF Len(segs) = 1 THEN segs[1]
  ELSE segs[1] \o <<".">> \o join(Tail(segs))

SpellPath(path) == [i \in 1..Len(path) |-> Spell[path[i]]]

\* ---------------------------------------------------------------- handlers
\* An action handler is a JavaScript function (value, ...payload) => result.
\* Its call yields the heap it leaves behind and the value it returns.
Arg(payload, i) == IF Len(payload) >= i THEN payload[i] ELSE Undefined
Returned(h, x) == [ok |-> TRUE, heap |-> h, ret |-> x]
Thrown(h) == [ok |-> FALSE, heap |-> h, ret |-> Undefined]

\* set: (_, newValue) => newValue
set(h, val, payload) == Returned(h, Arg(payload, 1))

\* changeFoo: (state, newFoo) => (state.foo = newFoo)
\* assigns the field of the object it is given and evaluates to newFoo; on a
\* primitive the assignment throws (modules are strict code).
changeFoo(h, state, payload) ==
  IF IsRef(state)
  THEN Returned([h EXCEPT ![state.v] = SetKey(@, "foo", Arg(payload, 1))], Arg(payload, 1))
  ELSE Thrown(h)

\* someAction: (currentValue, arg1, arg2) => currentValue
someAction(h, currentValue, payload) == Returned(h, currentValue)

\* increment: (val, by = 1) => val + by
\* the default stands in for an argument that is missing (undefined)
increment(h, val, payload) ==
  LET by == IF Arg(payload, 1) = Undefined THEN Prim(1) ELSE Arg(payload, 1)
  IN Returned(h, Prim(val.v + by.v))

\* decrement: (val, by = -1) => val + by
decrement(h, val, payload) ==
  LET by == IF Arg(payload, 1) = Undefined THEN Prim(-1) ELSE Arg(payload, 1)
  IN Returned(h, Prim(val.v + by.v))

\* A JavaScript array, by its elements.  The handlers of list mutate no array
\* they were given (concat and slice make new arrays, splice mutates the copy),
\* so an array is modelled by its contents.
Array(items) == [t |-> "array", v |-> items]
IsArray(x) == x.t = "array"

\* curr.concat(item): a new array of curr's elements followed by item, or by
\* the elements of item when item is itself an array.
concat(curr, item) ==
  Array(curr.v \o (IF IsArray(item) THEN item.v ELSE << item >>))

\* curr.slice(begin): a new array of the elements from index begin on
\* (indices count from 0).
slice(curr, begin) == Array(SubSeq(curr.v, begin + 1, Len(curr.v)))

\* curr.indexOf(item): the first index whose element === item, or -1.
indexOf(curr, item) ==
  IF \E i \in DOMAIN curr.v : curr.v[i] = item
  THEN (CHOOSE i \in DOMAIN curr.v :
          /\ curr.v[i] = item
          /\ \A j \in 1..(i - 1) : curr.v[j] # item) - 1
  ELSE -1

\* arr.splice(start, deleteCount): takes deleteCount elements out of arr from
\* index start on (a negative start counts from the end) and returns the
\* array of the elements taken out; `array` is what arr holds afterwards.
splice(arr, start, deleteCount) ==
  LET len == Len(arr.v)
      from == IF start < 0
              THEN (IF len + start < 0 THEN 0 ELSE len + start)
              ELSE (IF start > len THEN len ELSE start)
      count == IF deleteCount > len - from THEN len - from ELSE deleteCount
  IN [array |-> Array(SubSeq(arr.v, 1, from) \o SubSeq(arr.v, from + count + 1, len)),
      removed |-> Array(SubSeq(arr.v, from + 1, from + count))]

\* add: (curr, item) => curr.concat(item)
add(h, curr, payload) == Returned(h, concat(curr, Arg(payload, 1)))

\* remove: (curr, item) => curr.slice(0).splice(curr.indexOf(item), 1)
remove(h, curr, payload) ==
  Returned(h, splice(slice(curr, 0), indexOf(curr, Arg(payload, 1)), 1).removed)

NoHandler == "undefined"

\* action[ACTION](value, ...action.payload); calling what is not a function
\* throws a TypeError.
Invoke(fn, h, val, payload) ==
  CASE fn = "set" -> set(h, val, payload)
    [] fn = "changeFoo" -> changeFoo(h, val, payload)
    [] fn = "someAction" -> someAction(h, val, payload)
    [] fn = "increment" -> increment(h, val, payload)
    [] fn = "decrement" -> decrement(h, val, payload)
    [] fn = "add" -> add(h, val, payload)
    [] fn = "remove" -> remove(h, val, payload)
    [] OTHER -> Thrown(h)

\* ------------------------------------------------------------------- nodes
\* node(initialValue, actions)
node(initialValue, actions) ==
  [NODE |-> TRUE, value |-> initialValue, actions |-> actions]

\* value(initialValue, actions) = node(initialValue, {set, ...actions})
value(initialValue, actions) ==
  node(initialValue, actions @@ ("set" :> "set"))

\* num(initialValue) = value(initialValue, {increment, decrement})
num(initialValue) ==
  value(initialValue, [increment |-> "increment", decrement |-> "decrement"])

\* list(initialValue) = value(initialValue, {add, remove})
list(initialValue) ==
  value(initialValue, [add |-> "add", remove |-> "remove"])

NoActions == <<>>

\* target[key][NODE]
IsNode(entry) == "NODE" \in DOMAIN entry

\* ---------------------------------------------------------------- programs
\* The trees the model compiles, each with the heap its node values were
\* allocated in and with the whole-action reducers its author handed to
\* node() as a third argument (node() has no such parameter) and the thunks
\* handed to createStore.

\* { a: value(0), b: { c: value(1) } }
SpecTree ==
  [tree |-> [a |-> value(Prim(0), NoActions), b |-> [c |-> value(Prim(1), NoActions)]],
   heap |-> <<>>,
   reducers |-> <<>>,
   thunks |-> <<>>]

\* const foo = node({ foo: 'bar' }, { changeFoo }, onTestBarChangeFoo)
\* const bar = node({ foo: 'bar' }, { changeFoo }, onFooChangeFoo)
\* { foo, test: { bar } }
\* onFooChangeFoo: (state, action) => { if (action.type is foo's changeFoo)
\*   state.foo = 'fooChanged' }, and likewise onTestBarChangeFoo.
\* A reducer argument is recorded as the path of its node, the path of the
\* node whose action it reacts to (none: 'custom-action') and its effect.
TestTree ==
  [tree |-> [foo |-> node(Ref(1), "changeFoo" :> "changeFoo"),
             test |-> [bar |-> node(Ref(2), "changeFoo" :> "changeFoo")]],
   heap |-> << [foo |-> Prim(0)], [foo |-> Prim(0)] >>,
   reducers |-> << [path |-> <<"foo">>, on |-> <<"test", "bar">>, effect |-> "foo = changed"],
                   [path |-> <<"test", "bar">>, on |-> <<"foo">>, effect |-> "foo = changed"] >>,
   thunks |-> <<>>]

\* { x: { y: { z: value(0) }, z: value(1) }, z: node(0, { someAction }) }
DeepTree ==
  [tree |-> [x |-> [y |-> [z |-> value(Prim(0), NoActions)],
                    z |-> value(Prim(1), NoActions)],
             z |-> node(Prim(0), "someAction" :> "someAction")],
   heap |-> <<>>,
   reducers |-> <<>>,
   thunks |-> <<>>]

\* { foo: value(0, { someAction }), bar: node({ foo: 0 }, { changeFoo, someAction }),
\*   count: node({ count: 0 }, {}, customReducer) }
\* with, for createStore, thunks = { changeFooThunk }:
\*   changeFooThunk = newValue => ({ actions }) => { actions.foo.set(newValue) }
\* recorded as the creator its inner function calls with the thunk's payload.
\* customReducer: (state, action) => { switch (action.type) {
\*   case 'custom-action': state.count = action.payload } }
FlatTree ==
  [tree |-> [foo |-> value(Prim(0), "someAction" :> "someAction"),
             bar |-> node(Ref(1), ("changeFoo" :> "changeFoo") @@ ("someAction" :> "someAction")),
             count |-> node(Ref(2), NoActions)],
   heap |-> << [foo |-> Prim(0)], [count |-> Prim(0)] >>,
   reducers |-> << [path |-> <<"count">>, on |-> <<>>, effect |-> "count = payload"] >>,
   thunks |-> [changeFooThunk |-> [at |-> <<"foo">>, key |-> "set"]]]

\* { foo: node({ foo: 0, seen: 0 }, { changeFoo }, seeFoo) }
\* seeFoo: (state, action) => { if (action.type is foo's changeFoo) state.seen = state.foo }
OrderTree ==
  [tree |-> [foo |-> node(Ref(1), "changeFoo" :> "changeFoo")],
   heap |-> << [foo |-> Prim(0), seen |-> Prim(0)] >>,
   reducers |-> << [path |-> <<"foo">>, on |-> <<"foo">>, effect |-> "seen = foo"] >>,
   thunks |-> <<>>]

\* const foo = node({ foo: 0 }, { changeFoo }): the node itself is handed to
\* the compiler as the tree.
BareTree ==
  [tree |-> node(Ref(1), "changeFoo" :> "changeFoo"),
   heap |-> << [foo |-> Prim(0)] >>,
   reducers |-> <<>>,
   thunks |-> <<>>]

\* { foo: value(0, { Set: (currentValue, arg1, arg2) => currentValue }) }: two
\* action names of one node that differ in case only.
CaseTree ==
  [tree |-> [foo |-> value(Prim(0), "Set" :> "someAction")],
   heap |-> <<>>,
   reducers |-> <<>>,
   thunks |-> <<>>]

\* { a: { b: value(1) }, 'a.b': value(0) }: a key that holds the separator.
DotTree ==
  [tree |-> ("a.b" :> value(Prim(0), NoActions)) @@ [a |-> [b |-> value(Prim(1), NoActions)]],
   heap |-> <<>>,
   reducers |-> <<>>,
   thunks |-> <<>>]

Programs ==
  <<SpecTree, TestTree, DeepTree, FlatTree, OrderTree, BareTree, CaseTree, DotTree>>

\* The paths of the nodes of a tree, in declaration order: the paths at which
\* traverseTree finds target[key][NODE] (none when the tree is itself a node).
RECURSIVE NodePathsFrom(_, _, _)
NodePathsFrom(target, keys, path) ==
  IF keys = <<>> THEN <<>>
  ELSE LET key == Head(keys)
           here == IF IsNode(target[key]) THEN << path \o <<key>> >>
                   ELSE NodePathsFrom(target[key], ObjectKeys(target[key]), path \o <<key>>)
       IN here \o NodePathsFrom(target, Tail(keys), path)

NodePaths(tree) ==
  IF IsNode(tree) THEN <<>> ELSE NodePathsFrom(tree, ObjectKeys(tree), <<>>)

RECURSIVE NodeAt(_, _)
NodeAt(tree, path) ==
  IF Len(path) = 1 THEN tree[path[1]] ELSE NodeAt(tree[path[1]], Tail(path))

Range(seq) == {seq[i] : i \in DOMAIN seq}

\* ------------------------------------------------------------ tree compiler
\* The callbacks handed to traverseTree.  A callback argument that is not a
\* function (an array) cannot be called.
Callback(name) == [callable |-> TRUE, fn |-> name]
ArrayArgument == [callable |-> FALSE, fn |-> "array"]

\* The type built from the action name as declared, without '@@' and
\* without the change of case.
ActionType_nameAsDeclared(path, key) == join(SpellPath(path) \o << Spell[key] >>)

\* The type built without the path.
ActionType_withoutPath(path, key) == <<"@", "@">> \o toUpperCase(Spell[key])

\* path.concat(`@@${key.toUpperCase()}`).join('.')
ActionType(path, key) ==
  join(SpellPath(path) \o << <<"@", "@">> \o toUpperCase(Spell[key]) >>)

\* (node, path) => Object.keys(node.actions).reduce(...): one action creator
\* per declared action, closing over the type, the path and the handler
\* (the action's [ACTION] field is the field handler here).
ActionCreators(nd, path) ==
  [key \in DOMAIN nd.actions |->
     [type |-> ActionType(path, key), PATH |-> path, handler |-> nd.actions[key]]]

\* cb(target[key], path.concat(key))
CallCallback(cb, nd, path) ==
  IF ~cb.callable THEN TypeError
  ELSE IF cb.fn = "value" THEN Ok(nd.value)
  ELSE Ok(ActionCreators(nd, path))

\* traverseTree(target, ...) of a value that holds no node: Object.keys of a
\* number is [], of an object its keys, of undefined a TypeError; no key has
\* [NODE], so cb is never called and the result is an object per object, {}
\* per number.
RECURSIVE traverseObject(_, _)
traverseObject(h, x) ==
  IF x.t = "undefined" THEN TypeError
  ELSE IF IsRef(x)
  THEN IF \A key \in DOMAIN h[x.v] : traverseObject(h, h[x.v][key]).ok
       THEN Ok([key \in DOMAIN h[x.v] |-> traverseObject(h, h[x.v][key]).val])
       ELSE TypeError
  ELSE Ok(<<>>)

\* traverseTree(target, ...) of a target that is itself a node: Object.keys
\* gives 'value' and 'actions' (NODE is a symbol), neither has [NODE], so both
\* are traversed as sub-trees: the value as above, the actions object into
\* one {} per handler (Object.keys of a function is []).
traverseNode(h, target) ==
  LET val == traverseObject(h, target.value)
  IN IF val.ok
     THEN Ok([value |-> val.val, actions |-> [key \in DOMAIN target.actions |-> <<>>]])
     ELSE TypeError

\* createNodes' traverseTree(target, cb, path = [])
RECURSIVE createNodes_traverseTree(_, _, _, _)
createNodes_traverseTree(h, target, cb, path) ==
  LET entry(key) ==
        IF IsNode(target[key])
        THEN CallCallback(cb, target[key], path \o <<key>>)
        ELSE createNodes_traverseTree(h, target[key], cb, path \o <<key>>)
  IN IF IsNode(target) THEN traverseNode(h, target)
     ELSE IF \A key \in DOMAIN target : entry(key).ok
     THEN Ok([key \in DOMAIN target |-> entry(key).val])
     ELSE TypeError

\* createStore's traverseTree(target, cb, path = []): the recursive call is
\* traverseTree(target[key], path.concat(key)), so below the top level cb is
\* the array path.concat(key) and path is its default [].
RECURSIVE createStore_traverseTree(_, _, _, _)
createStore_traverseTree(h, target, cb, path) ==
  LET entry(key) ==
        IF IsNode(target[key])
        THEN CallCallback(cb, target[key], path \o <<key>>)
        ELSE createStore_traverseTree(h, target[key], ArrayArgument, <<>>)
  IN IF IsNode(target) THEN traverseNode(h, target)
     ELSE IF \A key \in DOMAIN target : entry(key).ok
     THEN Ok([key \in DOMAIN target |-> entry(key).val])
     ELSE TypeError

\* The objects traverseTree builds ({} filled by reduce) are placed in the
\* heap: one object per tree level, a node's value as it is.
IsValue(x) == DOMAIN x = {"t", "v"}

RECURSIVE Allocate(_, _)
RECURSIVE AllocateKeys(_, _, _, _)
AllocateKeys(h, addr, built, keys) ==
  IF keys = <<>> THEN h
  ELSE LET key == Head(keys)
           sub == Allocate(h, built[key])
       IN AllocateKeys([sub.heap EXCEPT ![addr] = SetKey(@, key, sub.val)],
                       addr, built, Tail(keys))

Allocate(h, built) ==
  IF IsValue(built) THEN [heap |-> h, val |-> built]
  ELSE LET addr == Len(h) + 1
       IN [heap |-> AllocateKeys(Append(h, <<>>), addr, built, ObjectKeys(built)),
           val |-> Ref(addr)]

\* The nested value a heap value stands for.
RECURSIVE Deref(_, _)
Deref(h, x) ==
  IF IsRef(x) THEN [key \in DOMAIN h[x.v] |-> Deref(h, h[x.v][key])] ELSE x

\* The creators of the node at a path of the compiled actions tree.
RECURSIVE CreatorsAt(_, _)
CreatorsAt(acts, path) ==
  IF path = <<>> THEN acts ELSE CreatorsAt(acts[path[1]], Tail(path))

\* (...payload) => ({ type, [PATH]: path, payload, [ACTION]: node.actions[key] })
CallCreator(creator, payload) ==
  [type |-> creator.type, PATH |-> creator.PATH, payload |-> payload,
   handler |-> creator.handler]

\* An action that no creator of the tree made: { type, payload }.
PlainAction(type, payload) ==
  [type |-> type, PATH |-> <<>>, payload |-> payload, handler |-> NoHandler]

\* return { actions, reducer } of createNodes, and the redux store createStore
\* returns: the property selectors of either is undefined.
selectors == Undefined

\* ----------------------------------------------------------------- reducer
\* The lookup that throws on a key its object lacks.
RECURSIVE reducePath_absentKeyThrows(_, _, _)
reducePath_absentKeyThrows(h, aggr, path) ==
  IF path = <<>> THEN Ok(aggr)
  ELSE IF IsRef(aggr) /\ Head(path) \in DOMAIN h[aggr.v]
  THEN reducePath_absentKeyThrows(h, h[aggr.v][Head(path)], Tail(path))
  ELSE TypeError

\* action[PATH].reduce((aggr, key) => aggr[key], currentState)
RECURSIVE reducePath(_, _, _)
reducePath(h, aggr, path) ==
  IF path = <<>> THEN Ok(aggr)
  ELSE LET next == Lookup(h, aggr, Head(path))
       IN IF next.ok THEN reducePath(h, next.val, Tail(path)) ELSE TypeError

Result(h, st) == [ok |-> TRUE, heap |-> h, state |-> st]
Raised(h, st) == [ok |-> FALSE, heap |-> h, state |-> st]

\* createNodes: action[PATH].forEach((key, index) => {
\*   currentStateLevel = currentStateLevel[key] =
\*     index === action[PATH].length - 1 ? newValue : { ...currentStateLevel[key] } })
\* currentStateLevel is the address of the object written to; index counts
\* from 1.
RECURSIVE createNodes_forEach(_, _, _, _, _)
createNodes_forEach(h, currentStateLevel, path, index, newValue) ==
  IF index > Len(path) THEN h
  ELSE IF index = Len(path)
  THEN [h EXCEPT ![currentStateLevel] = SetKey(@, path[index], newValue)]
  ELSE LET copy == Spread(h, Lookup(h, Ref(currentStateLevel), path[index]).val)
           addr == Len(h) + 1
       IN createNodes_forEach(
            [Append(h, copy) EXCEPT ![currentStateLevel] = SetKey(@, path[index], Ref(addr))],
            addr, path, index + 1, newValue)

\* createStore: const currentStateLevel = newState; action[PATH].forEach(
\*   (key, index) => { currentStateLevel[key] =
\*     index === action[PATH].length - 1 ? newValue : { ...currentStateLevel[key] } })
\* currentStateLevel stays the new top-level object for every key.
RECURSIVE createStore_forEach(_, _, _, _, _)
createStore_forEach(h, currentStateLevel, path, index, newValue) ==
  IF index > Len(path) THEN h
  ELSE IF index = Len(path)
  THEN [h EXCEPT ![currentStateLevel] = SetKey(@, path[index], newValue)]
  ELSE LET copy == Spread(h, Lookup(h, Ref(currentStateLevel), path[index]).val)
           addr == Len(h) + 1
       IN createStore_forEach(
            [Append(h, copy) EXCEPT ![currentStateLevel] = SetKey(@, path[index], Ref(addr))],
            currentStateLevel, path, index + 1, newValue)

\* The splice with currentStateLevel left at the new top-level object: every
\* key of the path is written there.
splice_levelNotAdvanced(h, currentState, path, newValue) ==
  LET addr == Len(h) + 1
  IN Result(createStore_forEach(Append(h, Spread(h, currentState)), addr, path, 1, newValue),
            Ref(addr))

\* if (value !== newValue) { newState = { ...newState }; ...forEach... }
createNodes_splice(h, currentState, path, newValue) ==
  LET addr == Len(h) + 1
  IN Result(createNodes_forEach(Append(h, Spread(h, currentState)), addr, path, 1, newValue),
            Ref(addr))

createStore_splice(h, currentState, path, newValue) ==
  LET addr == Len(h) + 1
  IN Result(createStore_forEach(Append(h, Spread(h, currentState)), addr, path, 1, newValue),
            Ref(addr))

\* The early return dropped: every action is taken to carry a handler.
HasHandler_always(action) == TRUE

\* !action[ACTION] is false: the action carries a handler.
HasHandler(action) == action.handler # NoHandler

\* The handler called with the value alone: action[ACTION](value).
HandlerCall_withoutPayload(action, val) ==
  [fn |-> action.handler, value |-> val, payload |-> <<>>]

\* action[ACTION](value, ...action.payload): the function called and its
\* arguments.
HandlerCall(action, val) ==
  [fn |-> action.handler, value |-> val, payload |-> action.payload]

NoCall == [fn |-> NoHandler, value |-> Undefined, payload |-> <<>>]

\* The comparison turned round: no handled action counts as a change.
Changed_never(val, newValue) == FALSE

\* The comparison dropped: every handled action counts as a change.
Changed_always(val, newValue) == TRUE

\* value !== newValue
Changed(val, newValue) == val # newValue

\* createNodes: (currentState = state, action) => { ... }
\* compiled is the state the closure holds, the default of currentState.
createNodes_reducer(h, compiled, given, action) ==
  LET currentState == IF given = Undefined THEN compiled ELSE given
      val == reducePath(h, currentState, action.PATH)
      called == HandlerCall(action, val.val)
      call == Invoke(called.fn, h, called.value, called.payload)
  IN IF ~HasHandler(action) THEN Result(h, currentState)
     ELSE IF ~val.ok THEN Raised(h, currentState)
     ELSE IF ~call.ok THEN Raised(call.heap, currentState)
     ELSE IF Changed(val.val, call.ret)
     THEN createNodes_splice(call.heap, currentState, action.PATH, call.ret)
     ELSE Result(call.heap, currentState)

\* createStore: the reducer handed to redux' createStore.
createStore_reducer(h, compiled, given, action) ==
  LET currentState == IF given = Undefined THEN compiled ELSE given
      val == reducePath(h, currentState, action.PATH)
      called == HandlerCall(action, val.val)
      call == Invoke(called.fn, h, called.value, called.payload)
  IN IF ~HasHandler(action) THEN Result(h, currentState)
     ELSE IF ~val.ok THEN Raised(h, currentState)
     ELSE IF ~call.ok THEN Raised(call.heap, currentState)
     ELSE IF Changed(val.val, call.ret)
     THEN createStore_splice(call.heap, currentState, action.PATH, call.ret)
     ELSE Result(call.heap, currentState)

\* TState<T>: the state a tree stands for: a record per sub-tree, each node's
\* value at the node's key.
RECURSIVE TState(_)
TState(tree) ==
  [key \in DOMAIN tree |->
     IF IsNode(tree[key]) THEN tree[key].value ELSE TState(tree[key])]

\* preloadedState: DeepPartial<TState<T>>: a state of the tree's type with any
\* of its keys left out.  The partial states drawn here lack one key: that of
\* a node or of a whole sub-tree.
RECURSIVE DropAt(_, _)
DropAt(content, path) ==
  IF Len(path) = 1
  THEN [key \in DOMAIN content \ {path[1]} |-> content[key]]
  ELSE [content EXCEPT ![path[1]] = DropAt(@, Tail(path))]

Prefixes(path) == {SubSeq(path, 1, n) : n \in 1..Len(path)}

\* No preloadedState: the choice <<>>.
NoPreloadedState == {<<>>}

\* The partial states: the path of the key the preloadedState lacks.
PartialStates(tree) == UNION {Prefixes(path) : path \in Range(NodePaths(tree))}

Preloaded(h, tree, without) ==
  IF without = <<>> THEN [heap |-> h, val |-> Undefined]
  ELSE Allocate(h, DropAt(TState(tree), without))

\* --------------------------------------------------- hand-written reference
\* The state as a plain nested value, updated by hand: for an own-action the
\* value at the node's path is replaced by handler(value, ...payload) and
\* everything else is kept.
RECURSIVE ReplaceAt(_, _, _)
ReplaceAt(content, path, x) ==
  IF path = <<>> THEN x
  ELSE IF Len(path) = 1 THEN SetKey(content, path[1], x)
  ELSE IF Head(path) \in DOMAIN content
  THEN [content EXCEPT ![Head(path)] = ReplaceAt(@, Tail(path), x)]
  ELSE content

RECURSIVE ContentAt(_, _)
ContentAt(content, path) ==
  IF path = <<>> THEN content
  ELSE IF ~IsValue(content) /\ Head(path) \in DOMAIN content
  THEN ContentAt(content[Head(path)], Tail(path))
  ELSE Undefined

\* What each handler returns for a plain value; changeFoo throws on what is
\* not an object.
HandlerThrows(fn, content) == fn = "changeFoo" /\ IsValue(content)

HandlerResult(fn, content, payload) ==
  CASE fn = "set" -> Arg(payload, 1)
    [] fn = "changeFoo" -> Arg(payload, 1)
    [] fn = "someAction" -> content

\* Every key of the path but the last leads to an object.
RECURSIVE Leads(_, _)
Leads(content, path) ==
  Len(path) <= 1 \/
    /\ ~IsValue(content)
    /\ Head(path) \in DOMAIN content
    /\ ~IsValue(content[Head(path)])
    /\ Leads(content[Head(path)], Tail(path))

ReferenceStep(content, action) ==
  LET current == ContentAt(content, action.PATH)
  IN IF ~Leads(content, action.PATH) \/ HandlerThrows(action.handler, current)
     THEN content
     ELSE ReplaceAt(content, action.PATH,
                    HandlerResult(action.handler, current, action.payload))

\* ------------------------------------------------------------ state machine
VARIABLES
  api,         \* which compiler the program calls: "createNodes" or "createStore"
  program,     \* the declared tree, with its whole-action reducer arguments
  status,      \* "declared", "compiled", "ready", or "TypeError" (compiling threw)
  heap,        \* the objects: address -> (key -> value)
  compiled,    \* the closure's state: the compiled initial state
  actions,     \* the compiled tree of action creators
  state,       \* store.getState()
  lastAction,  \* the last dispatch: the action, the value the handler got and returned
  prevState,   \* store.getState() before the last dispatch
  prevHeap,    \* the heap before the last dispatch
  snapshots,   \* every state the store has returned, with its contents then
  dispatched,  \* number of dispatches so far
  preloadedState, \* the preloadedState the store was created with, or undefined
  fired,       \* the last creator call (where, with which arguments) and handler call
  reference    \* the state of the hand-written reference

vars == <<api, program, status, heap, compiled, actions, state, lastAction,
          prevState, prevHeap, snapshots, dispatched, preloadedState, fired, reference>>

\* (...payload): the argument lists of a creator call, of no, one and two
\* arguments.
Payloads ==
  {<<>>} \cup {<<Prim(n)>> : n \in 0..MaxPayload}
         \cup {<<Prim(n), Prim(m)>> : n \in 0..MaxPayload, m \in 0..MaxPayload}

NotFired == [at |-> <<>>, args |-> <<>>, call |-> NoCall]

CustomAction == <<"c", "u", "s", "t", "o", "m", "-", "a", "c", "t", "i", "o", "n">>
ReduxInit == <<"@", "@", "r", "e", "d", "u", "x", "/", "I", "N", "I", "T">>

Dispatched(kind, key, action, val, newValue, threw) ==
  [kind |-> kind, key |-> key, action |-> action, val |-> val, newValue |-> newValue,
   threw |-> threw]

Snapshot(h, st) == [ref |-> st, content |-> Deref(h, st)]

Init ==
  /\ api \in {"createNodes", "createStore"}
  /\ \E i \in DOMAIN Programs : program = Programs[i]
  /\ status = "declared"
  /\ heap = program.heap
  /\ compiled = Undefined
  /\ actions = <<>>
  /\ state = Undefined
  /\ lastAction = Dispatched("none", "", PlainAction(<<>>, <<>>), Undefined, Undefined, FALSE)
  /\ prevState = Undefined
  /\ prevHeap = <<>>
  /\ snapshots = <<>>
  /\ dispatched = 0
  /\ preloadedState = Undefined
  /\ fired = NotFired
  /\ reference = Undefined

\* const { reducer, actions } = createNodes(nodes)
createNodes ==
  /\ api = "createNodes"
  /\ status = "declared"
  /\ LET st == createNodes_traverseTree(heap, program.tree, Callback("value"), <<>>)
         acts == createNodes_traverseTree(heap, program.tree, Callback("actions"), <<>>)
         alloc == Allocate(heap, st.val)
     IN /\ heap' = alloc.heap
        /\ compiled' = alloc.val
        /\ actions' = acts.val
  /\ status' = "compiled"
  /\ UNCHANGED <<api, program, state, lastAction, prevState, prevHeap, snapshots, dispatched,
                 preloadedState, fired, reference>>

\* const store = createStore(reducer, preloadedState) of redux: the store's
\* first state is reducer(preloadedState, { type: '@@redux/INIT' }).
reduxCreateStoreWith(choices) ==
  /\ api = "createNodes"
  /\ status = "compiled"
  /\ \E without \in choices :
       LET action == PlainAction(ReduxInit, <<>>)
           given == Preloaded(heap, program.tree, without)
           r == createNodes_reducer(given.heap, compiled, given.val, action)
       IN /\ heap' = r.heap
          /\ state' = r.state
          /\ preloadedState' = given.val
          /\ lastAction' = Dispatched("init", "", action, Undefined, Undefined, FALSE)
          /\ snapshots' = Append(snapshots, Snapshot(r.heap, r.state))
          /\ reference' = Deref(r.heap, r.state)
  /\ status' = "ready"
  /\ prevState' = state
  /\ prevHeap' = heap
  /\ UNCHANGED <<api, program, compiled, actions, dispatched, fired>>

\* const store = createStore({ tree, thunks }, { preloadedState }): compiles
\* the tree and creates the redux store in one call; a TypeError of
\* traverseTree leaves no store.
createStoreWith(choices) ==
  /\ api = "createStore"
  /\ status = "declared"
  /\ \E without \in choices :
       LET st == createStore_traverseTree(heap, program.tree, Callback("value"), <<>>)
           acts == createStore_traverseTree(heap, program.tree, Callback("actions"), <<>>)
           alloc == Allocate(heap, st.val)
           given == Preloaded(alloc.heap, program.tree, without)
           action == PlainAction(ReduxInit, <<>>)
           r == createStore_reducer(given.heap, alloc.val, given.val, action)
       IN IF st.ok /\ acts.ok
          THEN /\ heap' = r.heap
               /\ compiled' = alloc.val
               /\ actions' = acts.val
               /\ state' = r.state
               /\ preloadedState' = given.val
               /\ lastAction' = Dispatched("init", "", action, Undefined, Undefined, FALSE)
               /\ snapshots' = Append(snapshots, Snapshot(r.heap, r.state))
               /\ reference' = Deref(r.heap, r.state)
               /\ status' = "ready"
          ELSE /\ status' = "TypeError"
               /\ UNCHANGED <<heap, compiled, actions, state, lastAction, snapshots,
                              preloadedState, reference>>
  /\ prevState' = state
  /\ prevHeap' = heap
  /\ UNCHANGED <<api, program, dispatched, fired>>

\* The store made without options, as the tests and the documents make it.
reduxCreateStore == reduxCreateStoreWith(NoPreloadedState)

createStore == createStoreWith(NoPreloadedState)

\* The store made with a partial preloadedState.
reduxCreateStorePreloaded == reduxCreateStoreWith(PartialStates(program.tree))

createStorePreloaded == createStoreWith(PartialStates(program.tree))

\* The reducer the store runs.
Reducer(h, given, action) ==
  IF api = "createNodes"
  THEN createNodes_reducer(h, compiled, given, action)
  ELSE createStore_reducer(h, compiled, given, action)

\* store.dispatch(action): the store's state becomes reducer(state, action);
\* when the reducer throws, the state stays.
Dispatch(kind, key, at, args, action) ==
  /\ status = "ready"
  /\ dispatched < MaxDispatch
  /\ LET r == Reducer(heap, state, action)
         val == IF ~HasHandler(action) THEN TypeError
                ELSE reducePath(heap, state, action.PATH)
         newValue == IF val.ok
                     THEN Invoke(action.handler, heap, val.val, action.payload).ret
                     ELSE Undefined
     IN /\ heap' = r.heap
        /\ state' = r.state
        /\ lastAction' = Dispatched(kind, key, action, val.val, newValue, ~r.ok)
        /\ snapshots' = IF r.ok THEN Append(snapshots, Snapshot(r.heap, r.state))
                        ELSE snapshots
  /\ prevState' = state
  /\ prevHeap' = heap
  /\ dispatched' = dispatched + 1
  /\ fired' = [at |-> at, args |-> args,
               call |-> IF HasHandler(action)
                           /\ reducePath(heap, state, action.PATH).ok
                        THEN HandlerCall(action, reducePath(heap, state, action.PATH).val)
                        ELSE NoCall]
  /\ reference' = IF kind \in {"created", "thunk"}
                   THEN ReferenceStep(reference, action)
                   ELSE reference
  /\ UNCHANGED <<api, program, status, compiled, actions, preloadedState>>

\* store.dispatch(actions.<path>.<key>(...payload)), or
\* dispatch.actions.<path>.<key>(...payload) on the store of createStore
dispatchCreated ==
  \E i \in DOMAIN NodePaths(program.tree) :
    LET path == NodePaths(program.tree)[i]
    IN /\ status = "ready"
       /\ \E key \in DOMAIN CreatorsAt(actions, path) :
            \E payload \in Payloads :
              Dispatch("created", key, path, payload,
                       CallCreator(CreatorsAt(actions, path)[key], payload))

\* store.dispatch({ type: 'custom-action', payload })
dispatchPlain ==
  \E n \in 0..MaxPayload :
    Dispatch("plain", "", <<>>, <<>>, PlainAction(CustomAction, <<Prim(n)>>))

\* store.dispatch.thunks.<name>(payload): dispatch.thunks is the thunks object
\* as it was given (Object.assign(store.dispatch, { actions, thunks })), so the
\* call returns the thunk's inner function; nothing runs it and nothing is
\* dispatched.
callThunk ==
  /\ api = "createStore"
  /\ status = "ready"
  /\ dispatched < MaxDispatch
  /\ \E name \in DOMAIN program.thunks :
       \E n \in 0..MaxPayload :
         /\ lastAction' = Dispatched("thunkCalled", name, PlainAction(<<>>, <<Prim(n)>>),
                                     Undefined, Undefined, FALSE)
         /\ fired' = [at |-> <<>>, args |-> <<Prim(n)>>, call |-> NoCall]
  /\ prevState' = state
  /\ prevHeap' = heap
  /\ dispatched' = dispatched + 1
  /\ UNCHANGED <<api, program, status, heap, compiled, actions, state, snapshots,
                 preloadedState, reference>>

\* store.dispatch(thunks.<name>(payload)): the middleware finds the action to
\* be a function and calls it with { dispatch, actions: dispatch.actions,
\* thunks: dispatch.thunks, getState, effects }; the inner function calls
\* actions.foo.set(newValue), which dispatches the action of foo's set.
dispatchThunk ==
  /\ api = "createStore"
  /\ status = "ready"
  /\ \E name \in DOMAIN program.thunks :
       \E n \in 0..MaxPayload :
         LET body == program.thunks[name]
         IN Dispatch("thunk", body.key, body.at, <<Prim(n)>>,
                     CallCreator(CreatorsAt(actions, body.at)[body.key], <<Prim(n)>>))

Next ==
  \/ createNodes
  \/ reduxCreateStore
  \/ createStore
  \/ dispatchCreated
  \/ dispatchPlain
  \/ callThunk
  \/ dispatchThunk

Spec == Init /\ [][Next]_vars

\* The programs that hand a partial preloadedState to the store.
NextPreloaded ==
  \/ createNodes
  \/ reduxCreateStorePreloaded
  \/ createStorePreloaded
  \/ dispatchCreated
  \/ dispatchPlain
  \/ callThunk
  \/ dispatchThunk

SpecPreloaded == Init /\ [][NextPreloaded]_vars

\* --------------------------------------------- the reducer as a function
\* The reducer of either compiler applied, as the function it is, to a state of
\* the tree's type (TState) and to the actions of the tree's nodes.
\* The reducer of either compiler applied, as the function it is, to a state of
\* the tree's type and to the actions of the tree's nodes: the action of
\* action `key` of the node at `path` is what its creator callback returns.
InitReducer ==
  /\ api \in {"createNodes", "createStore"}
  /\ \E i \in DOMAIN Programs : program = Programs[i] /\ ~IsNode(Programs[i].tree)
  /\ status = "ready"
  /\ LET alloc == Allocate(program.heap, TState(program.tree))
     IN /\ heap = alloc.heap
        /\ compiled = alloc.val
        /\ state = alloc.val
        /\ prevState = alloc.val
        /\ prevHeap = alloc.heap
        /\ snapshots = << Snapshot(alloc.heap, alloc.val) >>
        /\ reference = Deref(alloc.heap, alloc.val)
  /\ preloadedState = Undefined
  /\ fired = NotFired
  /\ actions = <<>>
  /\ lastAction = Dispatched("none", "", PlainAction(<<>>, <<>>), Undefined, Undefined, FALSE)
  /\ dispatched = 0

reduceCreated ==
  \E i \in DOMAIN NodePaths(program.tree) :
    LET path == NodePaths(program.tree)[i]
        nd == NodeAt(program.tree, path)
    IN \E key \in DOMAIN nd.actions :
         \E payload \in Payloads :
           Dispatch("created", key, path, payload,
                    CallCreator(ActionCreators(nd, path)[key], payload))

reducePlain ==
  \E n \in 0..MaxPayload :
    Dispatch("plain", "", <<>>, <<>>, PlainAction(CustomAction, <<Prim(n)>>))

NextReducer ==
  \/ reduceCreated
  \/ reducePlain

SpecReducer == InitReducer /\ [][NextReducer]_vars

\* ------------------------------------------------ the handlers of num and list
\* The handlers of the prebuilt nodes num and list applied, as the functions
\* they are, to the node's value: the value starts as the node's initial value
\* and each call's result is the value the next call is given (what the
\* reducer does with a handler's result at the node's path).  `snapshots` is
\* the history of the calls: the handler called, its arguments, its result.

\* the arguments of increment and decrement: none, or one number
Numbers == {<<>>} \cup {<< Prim(n) >> : n \in 0..MaxPayload}

\* the elements of a list
Items == {Prim(n) : n \in 0..MaxPayload}

\* an item that is itself an array (a list of arrays)
ArrayItem == Array(<< Prim(0), Prim(MaxPayload) >>)

Lists == UNION {[1..n -> Items] : n \in 0..MaxList}

Called(key, args, result) == [key |-> key, args |-> args, value |-> result]

\* { tree: num(n) } and { tree: list(items) }
Declared(nd) == [tree |-> nd, heap |-> <<>>, reducers |-> <<>>, thunks |-> <<>>]

InitNodes ==
  /\ api = "node"
  /\ \/ \E n \in 0..MaxPayload : program = Declared(num(Prim(n)))
     \/ \E items \in Lists : program = Declared(list(Array(items)))
  /\ status = "ready"
  /\ heap = <<>>
  /\ compiled = program.tree.value
  /\ actions = <<>>
  /\ state = program.tree.value
  /\ lastAction = Dispatched("none", "", PlainAction(<<>>, <<>>), Undefined, Undefined, FALSE)
  /\ prevState = program.tree.value
  /\ prevHeap = <<>>
  /\ snapshots = << Called("", <<>>, program.tree.value) >>
  /\ dispatched = 0
  /\ preloadedState = Undefined
  /\ fired = NotFired
  /\ reference = Undefined

\* node.actions[key](value, ...args)
CallHandler(key, args) ==
  /\ key \in DOMAIN program.tree.actions
  /\ dispatched < MaxDispatch
  /\ LET action == PlainAction(<<>>, args)
         call == Invoke(program.tree.actions[key], heap, state, args)
     IN /\ state' = call.ret
        /\ lastAction' = Dispatched("handler", key, action, state, call.ret, ~call.ok)
        /\ snapshots' = Append(snapshots, Called(key, args, call.ret))
        /\ fired' = [at |-> <<>>, args |-> args,
                     call |-> [fn |-> program.tree.actions[key], value |-> state,
                               payload |-> args]]
  /\ prevState' = state
  /\ prevHeap' = heap
  /\ dispatched' = dispatched + 1
  /\ UNCHANGED <<api, program, status, heap, compiled, actions, preloadedState, reference>>

\* increment(), increment(by)
callIncrement == \E args \in Numbers : CallHandler("increment", args)

\* decrement(), decrement(by)
callDecrement == \E args \in Numbers : CallHandler("decrement", args)

\* add(item)
callAdd ==
  \/ \E item \in Items : CallHandler("add", << item >>)
  \/ CallHandler("add", << ArrayItem >>)

\* remove(item)
callRemove == \E item \in Items : CallHandler("remove", << item >>)

NextNodes ==
  \/ callIncrement
  \/ callDecrement
  \/ callAdd
  \/ callRemove

SpecNodes == InitNodes /\ [][NextNodes]_vars

\* ------------------------------------------------------------------ claims
Created == lastAction.kind = "created" /\ ~lastAction.threw
LastPath == lastAction.action.PATH

\* The heap value at a path of a state.
At(h, st, path) == reducePath(h, st, path).val

RECURSIVE IsomorphicTo(_, _, _)
IsomorphicTo(h, x, tree) ==
  /\ IsRef(x)
  /\ DOMAIN h[x.v] = DOMAIN tree
  /\ \A key \in DOMAIN tree :
       IF IsNode(tree[key]) THEN h[x.v][key] = tree[key].value
       ELSE IsomorphicTo(h, h[x.v][key], tree[key])

\* C1: compiling a tree yields an initial state isomorphic to the tree (a
\* record per sub-tree with the sub-tree's keys, each node's raw initial value
\* at the node's key), and the reducer called with an undefined state returns
\* that state.
C1_InitialStateIsomorphic ==
  (status # "declared" /\ ~IsNode(program.tree)) =>
    /\ status \in {"compiled", "ready"}
    /\ IsomorphicTo(heap, compiled, program.tree)
    /\ lastAction.kind = "init" => state = compiled

RECURSIVE SiblingsShared(_, _, _, _, _)
SiblingsShared(ph, pv, h, v, path) ==
  IF path = <<>> \/ ~IsRef(pv) THEN TRUE
  ELSE /\ IsRef(v)
       /\ \A key \in DOMAIN ph[pv.v] \ {Head(path)} :
            key \in DOMAIN h[v.v] /\ h[v.v][key] = ph[pv.v][key]
       /\ Head(path) \in DOMAIN ph[pv.v] =>
            /\ Head(path) \in DOMAIN h[v.v]
            /\ SiblingsShared(ph, ph[pv.v][Head(path)], h, h[v.v][Head(path)], Tail(path))

\* C2: after a dispatch of a created action, every sub-state off the action's
\* path is the reference it was before: at each level along the path, every
\* key but the path's holds the same value (the same address) as before.
C2_SiblingsShared ==
  Created => SiblingsShared(prevHeap, prevState, heap, state, LastPath)

\* a created action of a nested node, with siblings, has changed the state
C2_Witness ==
  /\ Created
  /\ Len(LastPath) >= 2
  /\ state # prevState
  /\ Cardinality(DOMAIN prevHeap[prevState.v]) >= 2

RECURSIVE FreshAlong(_, _, _, _)
FreshAlong(h, x, path, allocated) ==
  path = <<>> \/
    /\ IsRef(x)
    /\ x.v > allocated
    /\ FreshAlong(h, Lookup(h, x, Head(path)).val, Tail(path), allocated)

C4_NoOpSameState ==
  (Created /\ lastAction.val = lastAction.newValue) =>
    /\ state = prevState
    /\ Len(heap) = Len(prevHeap)

\* a handler has returned the object it was given
C4_Witness ==
  /\ Created
  /\ IsRef(lastAction.val)
  /\ lastAction.val = lastAction.newValue

\* C5: no dispatch changes a state the store has returned before: every
\* snapshot still has the contents it had when it was returned.
C5_SnapshotsIntact ==
  \A i \in DOMAIN snapshots :
    Deref(heap, snapshots[i].ref) = snapshots[i].content

\* C6: after the action of a handler that assigns state.foo = newFoo, the
\* node's value is a record of the shape it had, with foo = newFoo; the value
\* of the assignment expression does not become the node's value.
C6_MutationKeepsShape ==
  (Created /\ lastAction.action.handler = "changeFoo" /\ IsRef(lastAction.val)) =>
    LET now == At(heap, state, LastPath)
    IN /\ IsRef(now)
       /\ DOMAIN heap[now.v] = DOMAIN prevHeap[lastAction.val.v]
       /\ heap[now.v]["foo"] = Arg(lastAction.action.payload, 1)

\* C7: the type of the action of action w of the node at path k1..kn is the
\* keys and the name as declared, joined by '.': 'k1.….kn.w'.
C7_TypeIsPathAndName ==
  lastAction.kind = "created" =>
    lastAction.action.type = join(SpellPath(LastPath) \o << Spell[lastAction.key] >>)

UpperCased ==
  [set |-> <<"S", "E", "T">>,
   Set |-> <<"S", "E", "T">>,
   changeFoo |-> <<"C", "H", "A", "N", "G", "E", "F", "O", "O">>,
   someAction |-> <<"S", "O", "M", "E", "A", "C", "T", "I", "O", "N">>]

AtAtType(path, key) == join(SpellPath(path)) \o <<".", "@", "@">> \o UpperCased[key]

FooChanged == Prim(MaxPayload + 1)

Field(h, x, f) == IF IsRef(x) /\ f \in DOMAIN h[x.v] THEN h[x.v][f] ELSE Undefined

\* C9: the whole-action reducer handed to a node runs on every dispatched
\* action: after { type: 'custom-action', payload } the node of customReducer
\* has count = payload, and after the changeFoo action of another node the
\* node of a reducer that reacts to it has foo = 'fooChanged'.
C9_WholeReducerRuns ==
  \A i \in DOMAIN program.reducers :
    LET r == program.reducers[i]
        now == At(heap, state, r.path)
    IN /\ (lastAction.kind = "plain" /\ ~lastAction.threw /\ r.on = <<>>) =>
            Field(heap, now, "count") = Arg(lastAction.action.payload, 1)
       /\ (Created /\ r.on = LastPath /\ r.path # LastPath) =>
            Field(heap, now, "foo") = FooChanged

\* C10: within one dispatch the own-action update is applied first and then
\* the whole-action reducers run in declaration order on the state left so
\* far: after changeFoo(v), for every reducer that reacts to the action, the
\* action's node holds the handler's result, a reducer of that same node
\* that copies foo to seen has left seen = v (it ran on the updated value),
\* and the node of a reducer of another node has foo = 'fooChanged'.
C10_OwnUpdateThenReducers ==
  (Created /\ lastAction.key = "changeFoo") =>
    \A i \in DOMAIN program.reducers :
      LET r == program.reducers[i]
          own == At(heap, state, LastPath)
          now == At(heap, state, r.path)
      IN r.on = LastPath =>
           /\ \/ own = lastAction.newValue
              \/ Field(heap, own, "foo") = Arg(lastAction.action.payload, 1)
           /\ IF r.path = LastPath
              THEN Field(heap, now, "seen") = Arg(lastAction.action.payload, 1)
              ELSE Field(heap, now, "foo") = FooChanged

\* C11: an action without a handler passes through the own-action step: the
\* reducer does not throw (no handler is called, no path is indexed), no
\* object is touched or allocated, and, as no whole-action reducer runs, the
\* reducer returns the state reference it was given (the compiled initial
\* state when it was given undefined).
C11_NoMarkerPassThrough ==
  /\ lastAction.kind = "plain" =>
       /\ ~lastAction.threw
       /\ heap = prevHeap
       /\ program.reducers = <<>> => state = prevState
  /\ lastAction.kind = "init" => state = compiled

\* 'custom-action' has passed through a state that an earlier action had
\* changed, in a tree without whole-action reducers
C11_Witness ==
  /\ lastAction.kind = "plain"
  /\ program.reducers = <<>>
  /\ state # compiled
  /\ state = prevState

\* C12: compiling a tree that is itself a node terminates with the node's
\* value as the initial state (no wrapping object) and the node's action
\* creators as the actions, each with the empty path, the node's handler and
\* a type without path prefix; an update at the empty path makes the new
\* value the new top-level state.
C12_BareNode ==
  (IsNode(program.tree) /\ status # "declared") =>
    /\ status \in {"compiled", "ready"}
    /\ compiled = program.tree.value
    /\ DOMAIN actions = DOMAIN program.tree.actions
    /\ \A key \in DOMAIN program.tree.actions :
         /\ actions[key].PATH = <<>>
         /\ actions[key].handler = program.tree.actions[key]
         /\ actions[key].type \in {Spell[key], <<"@", "@">> \o UpperCased[key]}
    /\ (Created /\ lastAction.val # lastAction.newValue) => state = lastAction.newValue

\* The keys of the initial value of the node at a path.
LeafKeys(path) ==
  LET initial == NodeAt(program.tree, path).value
  IN IF IsRef(initial) THEN DOMAIN program.heap[initial.v] ELSE {}

\* C13: for every key of every node's initial value the compiled artifact
\* has a selector at the mirrored position, selectors.<path>.<key>, and the
\* selector applied to the current state gives the value the state holds at
\* path and key.
C13_SelectorsMirrorState ==
  status \in {"compiled", "ready"} =>
    \A path \in Range(NodePaths(program.tree)) :
      \A key \in LeafKeys(path) :
        LET selector == reducePath(heap, selectors, path \o <<key>>)
        IN /\ selector.ok
           /\ selector.val # Undefined
           /\ status = "ready" =>
                reducePath(heap, state, path \o <<key>>).ok

\* C14: after any sequence of own-actions dispatched from the compiled
\* initial state the store's state, as a plain nested value, equals the
\* state of the hand-written reference that
\* for each action replaced the value at the node's path by
\* handler(value, ...payload) and kept everything else.
C14_RoundTrip ==
  status = "ready" => Deref(heap, state) = reference

\* a second changing own-action, of a nested node, has been dispatched
C14_Witness ==
  /\ Created
  /\ Len(LastPath) >= 2
  /\ state # prevState
  /\ prevState # compiled
  /\ dispatched >= 2

\* C15: the action of a creator called with a1..an has payload <<a1..an>> in
\* call order, the path of the creator's node and the handler the node
\* declares under the action's name; the reducer calls exactly that handler
\* with the value the state held at that path, then a1..an.
C15_PayloadAndHandler ==
  lastAction.kind = "created" =>
    LET declared == NodeAt(program.tree, fired.at).actions[lastAction.key]
    IN /\ lastAction.action.payload = fired.args
       /\ lastAction.action.PATH = fired.at
       /\ lastAction.action.handler = declared
       /\ reducePath(prevHeap, prevState, fired.at).ok =>
            fired.call = [fn |-> declared,
                          value |-> At(prevHeap, prevState, fired.at),
                          payload |-> fired.args]

\* a creator of a nested node has been called with two different arguments
\* on a state an earlier action had changed
C15_Witness ==
  /\ lastAction.kind = "created"
  /\ Len(fired.at) >= 2
  /\ Len(fired.args) = 2
  /\ fired.args[1] # fired.args[2]
  /\ prevState # compiled
  /\ fired.call.fn # NoHandler

\* C16: the store of createStore is made for a tree of any depth, its
\* dispatch.actions holds, at every node's path, one method per action the
\* node declares, and after the call of such a method getState() holds the
\* handler's result at the node's path.
C16_StoreActionsAtEveryDepth ==
  (api = "createStore" /\ status # "declared" /\ ~IsNode(program.tree)) =>
    /\ status = "ready"
    /\ \A path \in Range(NodePaths(program.tree)) :
         DOMAIN CreatorsAt(actions, path) = DOMAIN NodeAt(program.tree, path).actions
    /\ Created => At(heap, state, fired.at) = lastAction.newValue

\* C17: after dispatch.thunks.changeFooThunk(v) the thunk's inner function
\* has run with the store's context and the action it fired is applied:
\* getState().foo is v.
C17_ThunkThroughDispatcher ==
  lastAction.kind = "thunkCalled" =>
    Lookup(heap, state, "foo").val = fired.args[1]

RECURSIVE KeepsShape(_, _, _)
KeepsShape(h, x, tree) ==
  /\ IsRef(x)
  /\ DOMAIN h[x.v] = DOMAIN tree
  /\ \A key \in DOMAIN tree :
       IsNode(tree[key]) \/ KeepsShape(h, h[x.v][key], tree[key])

\* C18: after any sequence of dispatches from the compiled initial state,
\* the state has the shape of the tree: at every sub-tree level an object
\* with exactly the sub-tree's keys, and an object at every sub-tree position.
C18_ShapeKept ==
  (status = "ready" /\ ~IsNode(program.tree)) =>
    KeepsShape(heap, state, program.tree)

\* the last of the dispatches has replaced the object of a nested node by a
\* primitive
C18_Witness ==
  /\ Created
  /\ dispatched = MaxDispatch
  /\ Len(LastPath) >= 2
  /\ IsRef(lastAction.val)
  /\ ~IsRef(At(heap, state, LastPath))

\* The position in a path of the first key the state lacks; 0 when the state
\* has every key.
RECURSIVE AbsentKey(_, _, _, _)
AbsentKey(h, x, path, index) ==
  IF index > Len(path) THEN 0
  ELSE IF IsRef(x) /\ path[index] \in DOMAIN h[x.v]
  THEN AbsentKey(h, h[x.v][path[index]], path, index + 1)
  ELSE index

LastAbsent == AbsentKey(prevHeap, prevState, fired.at, 1)

\* C19: an own-action whose path has a key the current state lacks makes the
\* reducer throw where it indexes: no handler is called (none is handed
\* undefined), no state is produced and the key is not created.
C19_AbsentKeyThrows ==
  (lastAction.kind = "created" /\ LastAbsent > 0) =>
    /\ lastAction.threw
    /\ fired.call = NoCall
    /\ state = prevState
    /\ AbsentKey(heap, state, fired.at, 1) = LastAbsent

\* C19 as amended: the reducer throws, calls no handler and produces no
\* state when a key before the last is absent; when only the last key is
\* absent it calls the handler with undefined, and the handler's result, if
\* the handler returns one other than undefined, is the value of that key in
\* the new state (otherwise the state stays as it was).
C19_AbsentKeyAmended ==
  (lastAction.kind = "created" /\ LastAbsent > 0) =>
    IF LastAbsent < Len(fired.at)
    THEN /\ lastAction.threw
         /\ fired.call = NoCall
         /\ state = prevState
         /\ heap = prevHeap
    ELSE /\ fired.call = [fn |-> lastAction.action.handler, value |-> Undefined,
                          payload |-> fired.args]
         /\ IF lastAction.threw \/ lastAction.newValue = Undefined
            THEN state = prevState
            ELSE /\ AbsentKey(heap, state, fired.at, 1) = 0
                 /\ At(heap, state, fired.at) = lastAction.newValue

\* an action of a nested node has been dispatched on a state that lacks the
\* node's sub-tree, and the reducer has thrown
C19_Witness ==
  /\ lastAction.kind = "created"
  /\ LastAbsent > 0
  /\ LastAbsent < Len(fired.at)
  /\ lastAction.threw

\* The (path, name) pairs of the compiled creators.
CreatorPairs ==
  {pair \in Range(NodePaths(program.tree)) \X DOMAIN UpperCased :
     pair[2] \in DOMAIN CreatorsAt(actions, pair[1])}

TypeOf(pair) == CreatorsAt(actions, pair[1])[pair[2]].type

\* C20: within one compiled tree two different (node path, action name)
\* pairs never have the same action type.
C20_TypesUnique ==
  status \in {"compiled", "ready"} =>
    \A p \in CreatorPairs : \A q \in CreatorPairs :
      TypeOf(p) = TypeOf(q) => p = q

\* No key and no action name of the tree holds the separator '.'.
NoSeparator ==
  \A pair \in CreatorPairs :
    /\ \A i \in DOMAIN pair[1] : "." \notin Range(Spell[pair[1][i]])
    /\ "." \notin Range(Spell[pair[2]])

\* No node declares two action names with the same upper-case form.
NoCaseTwins ==
  \A p \in CreatorPairs : \A q \in CreatorPairs :
    (p[1] = q[1] /\ p[2] # q[2]) => UpperCased[p[2]] # UpperCased[q[2]]

\* C20 as amended: when no key and no action name holds '.', and no node
\* declares two action names with the same upper-case form, two different
\* (node path, action name) pairs never have the same action type.
C20_TypesUniqueAmended ==
  (status \in {"compiled", "ready"} /\ NoSeparator /\ NoCaseTwins) =>
    \A p \in CreatorPairs : \A q \in CreatorPairs :
      TypeOf(p) = TypeOf(q) => p = q

\* a tree is compiled in which two nodes declare the same action name and a
\* node declares several actions
C20_Witness ==
  /\ status \in {"compiled", "ready"}
  /\ NoSeparator
  /\ NoCaseTwins
  /\ \E p \in CreatorPairs : \E q \in CreatorPairs : p[1] # q[1] /\ p[2] = q[2]
  /\ \E p \in CreatorPairs : \E q \in CreatorPairs : p[1] = q[1] /\ p[2] # q[2]

\* the list without the first occurrence of item, the others in their order
RECURSIVE WithoutFirst(_, _)
WithoutFirst(items, item) ==
  IF items = <<>> THEN <<>>
  ELSE IF Head(items) = item THEN Tail(items)
  ELSE << Head(items) >> \o WithoutFirst(Tail(items), item)

\* the list without any occurrence of item, the others in their order
RECURSIVE WithoutAll(_, _)
WithoutAll(items, item) ==
  IF items = <<>> THEN <<>>
  ELSE IF Head(items) = item THEN WithoutAll(Tail(items), item)
  ELSE << Head(items) >> \o WithoutAll(Tail(items), item)

\* C21: for a list node, add(item) yields the current list with item
\* appended at the end, and remove(item) yields the current list without
\* that item (its first occurrence, or every occurrence) and with every
\* other element in its order; removing an item the list does not hold
\* leaves the contents as they were.
C21_ListAddRemove ==
  LET item == Arg(fired.args, 1)
  IN /\ lastAction.kind = "handler" /\ lastAction.key = "add"
          => state = Array(prevState.v \o << item >>)
     /\ lastAction.kind = "handler" /\ lastAction.key = "remove"
          => \/ state = Array(WithoutFirst(prevState.v, item))
             \/ state = Array(WithoutAll(prevState.v, item))

\* the n of increment(n) and decrement(n), 1 when omitted
By(args) == IF args = <<>> THEN 1 ELSE args[1].v

\* C22: for a num node, increment(n) raises the value by n and decrement(n)
\* lowers it by n, n being 1 when omitted; increment(n) followed by
\* decrement(n) leaves the value the node had before the two.
C22_NumIncrementDecrement ==
  LET last == snapshots[Len(snapshots)]
  IN /\ lastAction.kind = "handler" /\ lastAction.key = "increment"
          => state.v = prevState.v + By(fired.args)
     /\ lastAction.kind = "handler" /\ lastAction.key = "decrement"
          => state.v = prevState.v - By(fired.args)
     /\ (/\ Len(snapshots) >= 3
         /\ last.key = "decrement"
         /\ snapshots[Len(snapshots) - 1].key = "increment"
         /\ snapshots[Len(snapshots) - 1].args = last.args)
          => last.value = snapshots[Len(snapshots) - 2].value

====
